---- MODULE Spec2Model ----
(***************************************************************************)
(* SubscriptionManager of sglre6355/weather-lady                           *)
(* (src/internal/usecase/subscription_manager.go, the store-aware version, *)
(* lines 251-578): the registry of scheduled entries, the callers of Add,  *)
(* Remove, Shutdown, LoadExisting and ListByGuild, and one schedule        *)
(* goroutine per entry.                                                    *)
(*                                                                         *)
(* Every caller is a process whose steps are cut at the points where other *)
(* goroutines can interleave: a store call, a critical section of m.mu     *)
(* (Lock and the statements under it are one step, Unlock is the next),    *)
(* one close(stopChan), the go statement.  A schedule goroutine steps at   *)
(* its select and at the return of each port call.  Time is abstract: an   *)
(* armed timer may elapse at any moment.                                   *)
(*                                                                         *)
(* Spec has one caller and the full schedule goroutines; SpecCallers has   *)
(* two concurrent callers and goroutines whose timers do not elapse while  *)
(* the calls run (a pipeline touches neither the registry nor the lock).   *)
(***************************************************************************)
EXTENDS Integers, Sequences, FiniteSets, TLC

VARIABLES cfg, subscriptions, entry, task, store, mu, proc, ret, panicked, lastShutdown, run

vars == <<cfg, subscriptions, entry, task, store, mu, proc, ret, panicked, lastShutdown, run>>

-----------------------------------------------------------------------------
(* Bounds of the model *)

\* entries ever created by register (Add and LoadExisting together)
MaxEntries == 2
\* rows the persistent store ever holds at once
MaxStore == 2
\* the scale of the clock: seconds in a minute, minutes in an hour, hours in
\* a calendar day without clock change; the last calendar day considered
SecondsPerMinute == 2
MinutesPerHour == 2
HoursPerDay == 4
MaxDay == 1
\* firings followed on the time line of one goroutine; the longest pipeline
\* call and the longest wait of a goroutine for the processor, in seconds
MaxFirings == 2
MaxDuration == 1
MaxLatency == 1

-----------------------------------------------------------------------------
(* Values *)

None == "none"
Procs == {"p1", "p2"}
Channels == {"c1", "c2"}
Guilds == {"g1", "g2"}

\* time.Parse("15:04", ...) yields a time on the zero date; the store keeps
\* times on 1 January of referenceYear.
ZeroDate == "0000-01-01"
RefDate == "2000-01-01"

\* domain.Subscription: the fields the manager and the store read.  URL,
\* ElementSelector and Message are carried along unread and are left out.
Subscription(c, g, hm) == [ChannelID |-> c, GuildID |-> g, Time |-> [date |-> ZeroDate, hm |-> hm]]

\* the subscriptions callers hand to Add
SubInputs == {Subscription("c1", "g1", 1), Subscription("c2", "g2", 2)}

\* timeOfDay: the stored time keeps hour and minute and moves to the reference date
timeOfDay(t) == [date |-> RefDate, hm |-> t.hm]

\* fromTimeOfDay: the loaded time keeps hour and minute, on the reference date
fromTimeOfDay(t) == [date |-> RefDate, hm |-> t.hm]

\* the row SubscriptionStore.Create writes for a subscription
subscriptionRecord(sub) ==
    [ChannelID |-> sub.ChannelID, GuildID |-> sub.GuildID, TimeOfDay |-> timeOfDay(sub.Time)]

\* the subscription SubscriptionStore.List builds from a row
FromRecord(r) ==
    [ChannelID |-> r.ChannelID, GuildID |-> r.GuildID, Time |-> fromTimeOfDay(r.TimeOfDay)]

\* rows a database may already hold when the manager is constructed
InitStores ==
    {<<>>,
     <<subscriptionRecord(Subscription("c1", "g1", 1))>>,
     <<subscriptionRecord(Subscription("c1", "g1", 1)),
       subscriptionRecord(Subscription("c2", "g2", 2))>>}

-----------------------------------------------------------------------------
(* Time: instants, locations and wall clocks (package time, as nextRun uses it) *)

\* durations, in the model's seconds
MinuteLen == SecondsPerMinute
HourLen == MinutesPerHour * MinuteLen
DayLen == HoursPerDay * HourLen

\* interval: 24 * time.Hour, the length of a calendar day without clock change
DefaultInterval == DayLen

\* locations a clock reading can carry: "UTC" has no clock change; in "DST"
\* the clocks are set back by one hour on the last day considered, at the end
\* of its second hour, so that this day has one hour more and its second hour
\* is read twice
Locations == {"UTC", "DST"}
Zone == [longDay |-> MaxDay, repeatedHour |-> 1]

\* the length of calendar day d in location loc
DayLength(loc, d) == IF loc = "DST" /\ d = Zone.longDay THEN DayLen + HourLen ELSE DayLen

RECURSIVE DayStart(_, _)
\* the instant at which calendar day d begins in location loc
DayStart(loc, d) == IF d = 0 THEN 0 ELSE DayStart(loc, d - 1) + DayLength(loc, d - 1)

\* the instants of the days considered
Instants(loc) == 0..(DayStart(loc, MaxDay + 1) - 1)

\* now.Year(), now.Month(), now.Day(): the calendar day of instant t
DayOf(loc, t) == CHOOSE d \in 0..MaxDay : DayStart(loc, d) <= t /\ t < DayStart(loc, d + 1)

\* the wall clock of instant t in location loc
Clock(loc, t) ==
    LET d == DayOf(loc, t)
        o == t - DayStart(loc, d)
        w == IF loc = "DST" /\ d = Zone.longDay /\ o >= (Zone.repeatedHour + 1) * HourLen
             THEN o - HourLen ELSE o
    IN [day |-> d, hour |-> w \div HourLen, minute |-> (w % HourLen) \div MinuteLen,
        second |-> w % MinuteLen]

\* time.Date(year, month, day, hour, min, 0, 0, loc): the instants that read
\* hour:min:00 on day d in loc.  A wall clock time that is read twice has
\* two, and Date returns either of them.
Date(loc, d, hour, min) ==
    {t \in Instants(loc) :
        Clock(loc, t) = [day |-> d, hour |-> hour, minute |-> min, second |-> 0]}

\* target.Hour(), target.Minute(): Time.hm counts the minutes since midnight
Hour(t) == t.hm \div MinutesPerHour
Minute(t) == t.hm % MinutesPerHour

\* the times of day a subscription can carry, as handed to Add (zero date)
\* and as loaded from the store (reference date)
Targets == [date : {ZeroDate, RefDate}, hm : 0..(HoursPerDay * MinutesPerHour - 1)]

-----------------------------------------------------------------------------
(* Helpers *)

RECURSIVE SelectRows(_, _)
\* the rows of s that are not stored against channel ch, in order
SelectRows(s, ch) ==
    IF s = <<>> THEN <<>>
    ELSE IF Head(s).ChannelID = ch THEN SelectRows(Tail(s), ch)
         ELSE <<Head(s)>> \o SelectRows(Tail(s), ch)

\* number of rows of s stored against channel ch (RowsAffected of the delete)
RowsFor(s, ch) == Cardinality({i \in DOMAIN s : s[i].ChannelID = ch})

RECURSIVE InGuild(_, _)
\* the subscriptions of s whose GuildID is g, in order
InGuild(s, g) ==
    IF s = <<>> THEN <<>>
    ELSE IF Head(s).GuildID = g THEN <<Head(s)>> \o InGuild(Tail(s), g)
         ELSE InGuild(Tail(s), g)

RECURSIVE ListRows(_)
\* SubscriptionStore.List: one subscription per row, in row order
ListRows(s) == IF s = <<>> THEN <<>> ELSE <<FromRecord(Head(s))>> \o ListRows(Tail(s))

\* every ordering of the keys of a Go map (range over a map has no fixed order)
KeyOrders(m) ==
    {o \in [1..Cardinality(DOMAIN m) -> DOMAIN m] : \A i, j \in DOMAIN o : i # j => o[i] # o[j]}

RECURSIVE Flatten_FirstPerKey(_, _)
\* mutant: only the first entry of every key is taken
Flatten_FirstPerKey(m, o) ==
    IF o = <<>> THEN <<>> ELSE SubSeq(m[Head(o)], 1, 1) \o Flatten_FirstPerKey(m, Tail(o))

RECURSIVE Flatten(_, _)
\* the entries of map m, key by key in the order o
Flatten(m, o) == IF o = <<>> THEN <<>> ELSE m[Head(o)] \o Flatten(m, Tail(o))

\* a function with one key less / one key set
DropKey(m, k) == [x \in DOMAIN m \ {k} |-> m[x]]
PutKey(m, k, v) == [x \in DOMAIN m \cup {k} |-> IF x = k THEN v ELSE m[x]]

\* entries that calls in progress will still append
Pending == LET n[S \in SUBSET Procs] ==
                   IF S = {} THEN 0
                   ELSE LET p == CHOOSE q \in S : TRUE IN Len(proc[p].queue) + n[S \ {p}]
           IN n[Procs]

-----------------------------------------------------------------------------
(* State *)

\* make(map[string][]*subscriptionEntry)
EmptyMap == [c \in {} |-> <<>>]

\* sync.RWMutex: no holder
Unlocked == [writer |-> None, readers |-> {}]

\* a caller between calls
\* (base: the number of entries that existed when a LoadExisting began;
\* seen: the map keys the range loop of a ListByGuild has produced so far)
Idle == [pc |-> "idle", op |-> None, ch |-> None, guild |-> None, queue |-> <<>>, cur |-> 0,
         entries |-> <<>>, i |-> 0, deleted |-> 0, subs |-> <<>>, base |-> 0,
         storeFailed |-> FALSE, afterShutdown |-> FALSE, seen |-> {}]

\* what the last call of a caller returned
NoRet == [op |-> None, ch |-> None, guild |-> None, err |-> None, count |-> 0, subs |-> <<>>,
          live |-> 0, deleted |-> 0, storeFailed |-> FALSE, afterShutdown |-> FALSE]

\* a subscriptionEntry right after register built it: no goroutine yet
\* (ctx: the context.WithTimeout of the port call in progress, if any)
NoTask == [pc |-> None, timer |-> None, ctx |-> None,
           capture |-> None, dispatch |-> None, reports |-> <<>>, err |-> None]

\* no nextRun computation under observation
\* (k: firings begun; due: the instant the timer is armed for; at: the
\* instant of the goroutine's last step; firedAt: the instant the last
\* firing began; spent: the durations of the pipeline calls so far)
NoRun == [pc |-> "off", loc |-> None, now |-> 0, target |-> None, interval |-> 0,
          scheduled |-> 0, next |-> 0,
          k |-> 0, due |-> 0, at |-> 0, firedAt |-> 0, spent |-> 0]

\* the entries created so far, by number
Entries == DOMAIN entry

\* the numbers an entry can have
EntryIds == 1..MaxEntries

\* NewSubscriptionManager: an empty registry; capture, sender and store as given
Init ==
    /\ cfg \in [capture : BOOLEAN, sender : BOOLEAN, store : BOOLEAN]
    /\ subscriptions = EmptyMap
    /\ entry = <<>>
    /\ task = <<>>
    /\ store \in (IF cfg.store THEN InitStores ELSE {<<>>})
    /\ mu = Unlocked
    /\ proc = [p \in Procs |-> Idle]
    /\ ret = [p \in Procs |-> NoRet]
    /\ panicked = None
    /\ lastShutdown = None
    /\ run = NoRun

\* the process runs (an unrecovered panic in any goroutine ends it)
Running == panicked = None

\* mutant: a goroutine inside a pipeline invocation holds m.mu
MuFree_NoFiring ==
    /\ mu.writer = None /\ mu.readers = {}
    /\ \A e \in DOMAIN task : task[e].pc \notin {"CAPTURING", "DISPATCHING", "RETURNED"}

\* mutant: the unlock is deferred to the return of the call
Unlock_Deferred == mu

\* m.mu.Unlock() by the caller that holds m.mu for writing
Unlock == [mu EXCEPT !.writer = None]

\* mutant: a writer does not wait for the readers
MuFree_IgnoresReaders == mu.writer = None

\* m.mu can be taken for writing
MuFree == mu.writer = None /\ mu.readers = {}

\* the call of p returns r to its caller
Return(p, r) ==
    /\ ret' = [ret EXCEPT ![p] = r]
    /\ proc' = [proc EXCEPT ![p] = [Idle EXCEPT !.pc = "returned"]]

\* the caller has taken the result and is free to make its next call
Resume(p) ==
    /\ Running
    /\ proc[p].pc = "returned"
    /\ proc' = [proc EXCEPT ![p] = Idle]
    /\ ret' = [ret EXCEPT ![p] = NoRet]
    /\ UNCHANGED <<cfg, run, subscriptions, entry, task, store, mu, panicked, lastShutdown>>

-----------------------------------------------------------------------------
(* register, lines 520-531: shared by Add and LoadExisting *)

\* mutant: a subscription the channel already holds is not appended again
Appended_MergesDuplicate(old, id, sub) ==
    IF \E i \in DOMAIN old : entry[old[i]].sub = sub THEN old ELSE Append(old, id)

\* mutant: the new entry takes the place of the entries the channel holds
Appended_ReplacesOld(old, id, sub) == <<id>>

\* append(m.subscriptions[sub.ChannelID], entry)
Appended(old, id, sub) == Append(old, id)

\* mutant: after a Shutdown the manager hands out stop channels that are
\* already closed
subscriptionEntry_ClosedAfterShutdown(sub) ==
    [sub |-> sub, stopChan |-> IF lastShutdown # None THEN "closed" ELSE "open",
     detachedBy |-> None, opReturned |-> FALSE]

\* entry := &subscriptionEntry{subscription: sub, stopChan: make(chan struct{})}
subscriptionEntry(sub) ==
    [sub |-> sub, stopChan |-> "open", detachedBy |-> None, opReturned |-> FALSE]

\* m.mu.Lock(); m.subscriptions[sub.ChannelID] = append(..., entry)
RegisterLock(p) ==
    /\ Running
    /\ proc[p].pc = "register"
    /\ MuFree
    /\ LET sub == Head(proc[p].queue)
           id == Len(entry) + 1
           old == IF sub.ChannelID \in DOMAIN subscriptions
                  THEN subscriptions[sub.ChannelID] ELSE <<>>
       IN /\ entry' = Append(entry, subscriptionEntry(sub))
          /\ task' = Append(task, NoTask)
          /\ subscriptions' = PutKey(subscriptions, sub.ChannelID, Appended(old, id, sub))
          /\ proc' = [proc EXCEPT ![p].pc = "register_unlock", ![p].cur = id]
    /\ mu' = [mu EXCEPT !.writer = p]
    /\ lastShutdown' = None
    /\ UNCHANGED <<cfg, run, store, ret, panicked>>

\* m.mu.Unlock()
RegisterUnlock(p) ==
    /\ Running
    /\ proc[p].pc = "register_unlock"
    /\ mu' = Unlock
    /\ proc' = [proc EXCEPT ![p].pc = "register_go"]
    /\ UNCHANGED <<cfg, run, subscriptions, entry, task, store, ret, panicked, lastShutdown>>

\* mutant: the go statement is missing
Launched_Never == NoTask

\* mutant: the goroutine runs the pipeline before it waits on its timer
Launched_FiresAtOnce ==
    [NoTask EXCEPT !.pc = "CAPTURING", !.ctx = "live", !.capture = "called"]

\* the goroutine of a new entry at its select, its timer armed with
\* time.Until(nextRun) (lines 502-503)
Launched == [NoTask EXCEPT !.pc = "WAITING", !.timer = "untilNextRun"]

\* go m.schedule(entry): the goroutine computes nextRun and arms its timer
\* (lines 502-503); then the caller's loop goes on or the call returns nil
RegisterGo(p) ==
    /\ Running
    /\ proc[p].pc = "register_go"
    /\ task' = [task EXCEPT ![proc[p].cur] = Launched]
    /\ IF Tail(proc[p].queue) = <<>>
       THEN Return(p, [NoRet EXCEPT !.op = proc[p].op, !.subs = proc[p].subs])
       ELSE /\ proc' = [proc EXCEPT ![p].pc = "register", ![p].queue = Tail(@)]
            /\ UNCHANGED ret
    /\ UNCHANGED <<cfg, run, subscriptions, entry, store, mu, panicked, lastShutdown>>

-----------------------------------------------------------------------------
(* Add, lines 394-410 *)

\* mutant: the check of m.sender is missing
ConfigError_NoSenderCheck ==
    IF ~cfg.capture THEN "missing forecast capture dependency" ELSE None

\* if m.capture == nil {...}; if m.sender == nil {...}
ConfigError ==
    IF ~cfg.capture THEN "missing forecast capture dependency"
    ELSE IF ~cfg.sender THEN "missing forecast sender dependency"
    ELSE None

\* what a call to the store can come to; without a store no call is made
StoreOutcomes == IF cfg.store THEN {"ok", "failed"} ELSE {"skipped"}

\* mutant: the error of store.Create is ignored
AddAborts_Never(out) == FALSE

\* mutant: the test of the error of store.Create is inverted
AddAborts_OnSuccess(out) == out = "ok"

\* if err := m.store.Create(...); err != nil { return ... }
AddAborts(out) == out = "failed"

\* the nil checks and store.Create; on success the call goes on to register
Add(p, sub) ==
    /\ Running
    /\ proc[p].pc = "idle"
    /\ Len(entry) + Pending < MaxEntries
    /\ IF ConfigError # None
       THEN /\ Return(p, [NoRet EXCEPT !.op = "Add", !.err = ConfigError])
            /\ UNCHANGED store
       ELSE \E out \in StoreOutcomes :
               /\ out = "ok" => Len(store) < MaxStore
               /\ store' = IF out = "ok" THEN Append(store, subscriptionRecord(sub)) ELSE store
               /\ IF AddAborts(out)
                  THEN Return(p, [NoRet EXCEPT !.op = "Add", !.err = "persist subscription",
                                               !.storeFailed = (out = "failed")])
                  ELSE /\ proc' = [proc EXCEPT ![p].pc = "register", ![p].op = "Add",
                                               ![p].queue = <<sub>>,
                                               ![p].storeFailed = (out = "failed")]
                       /\ UNCHANGED ret
    /\ UNCHANGED <<cfg, run, subscriptions, entry, task, mu, panicked, lastShutdown>>

-----------------------------------------------------------------------------
(* close(entry.stopChan) in the loops of Remove (430-432) and Shutdown (449-454) *)

\* mutant: the loop passes over the entry without closing its channel
CloseNext_SkipsClose(p) ==
    /\ proc[p].i <= Len(proc[p].entries)
    /\ proc' = [proc EXCEPT ![p].i = @ + 1]
    /\ UNCHANGED <<entry, panicked>>

\* one iteration: closing a closed channel panics
CloseNext(p) ==
    /\ proc[p].i <= Len(proc[p].entries)
    /\ LET e == proc[p].entries[proc[p].i]
       IN IF entry[e].stopChan = "closed"
          THEN /\ panicked' = "close of closed channel"
               /\ UNCHANGED <<entry, proc>>
          ELSE /\ entry' = [entry EXCEPT ![e].stopChan = "closed"]
               /\ proc' = [proc EXCEPT ![p].i = @ + 1]
               /\ UNCHANGED panicked

\* the entries a returning Remove or Shutdown had detached
MarkReturned(p) ==
    [e \in DOMAIN entry |->
        IF \E i \in DOMAIN proc[p].entries : proc[p].entries[i] = e
        THEN [entry[e] EXCEPT !.opReturned = TRUE] ELSE entry[e]]

\* the entries a Remove or Shutdown detaches under the lock
MarkDetached(es, by) ==
    [e \in DOMAIN entry |->
        IF \E i \in DOMAIN es : es[i] = e
        THEN [entry[e] EXCEPT !.detachedBy = by] ELSE entry[e]]

-----------------------------------------------------------------------------
(* Remove, lines 413-439 *)

\* mutant: the error of store.DeleteByChannel is ignored
RemoveAborts_Never(out) == FALSE

\* count, err := m.store.DeleteByChannel(...); if err != nil { return 0, ... }
RemoveAborts(out) == out = "failed"

\* store.DeleteByChannel, when a store is configured
Remove(p, ch) ==
    /\ Running
    /\ proc[p].pc = "idle"
    /\ \E out \in StoreOutcomes :
          /\ store' = IF out = "ok" THEN SelectRows(store, ch) ELSE store
          /\ IF RemoveAborts(out)
             THEN Return(p, [NoRet EXCEPT !.op = "Remove", !.ch = ch,
                                          !.err = "delete subscriptions",
                                          !.count = 0, !.storeFailed = (out = "failed")])
             ELSE /\ proc' = [proc EXCEPT ![p].pc = "remove_lock", ![p].op = "Remove",
                                          ![p].ch = ch,
                                          ![p].deleted = IF out = "ok" THEN RowsFor(store, ch)
                                                         ELSE 0,
                                          ![p].storeFailed = (out = "failed")]
                  /\ UNCHANGED ret
    /\ UNCHANGED <<cfg, run, subscriptions, entry, task, mu, panicked, lastShutdown>>

\* mutant: only the first entry of the channel is taken
EntriesOf_FirstOnly(ch) ==
    IF ch \in DOMAIN subscriptions THEN SubSeq(subscriptions[ch], 1, 1) ELSE <<>>

\* entries, ok := m.subscriptions[channelID]
EntriesOf(ch) == IF ch \in DOMAIN subscriptions THEN subscriptions[ch] ELSE <<>>

\* mutant: the key is left in the map
WithoutChannel_NoDelete(ch) == subscriptions

\* mutant: the whole map is emptied
WithoutChannel_ClearsRegistry(ch) == EmptyMap

\* if ok { delete(m.subscriptions, channelID) }
WithoutChannel(ch) == IF ch \in DOMAIN subscriptions THEN DropKey(subscriptions, ch) ELSE subscriptions

\* m.mu.Lock(); entries, ok := m.subscriptions[channelID]; if ok { delete(...) }
RemoveLock(p) ==
    /\ Running
    /\ proc[p].pc = "remove_lock"
    /\ MuFree
    /\ LET ch == proc[p].ch
           entries == EntriesOf(ch)
       IN /\ subscriptions' = WithoutChannel(ch)
          /\ proc' = [proc EXCEPT ![p].pc = "remove_unlock", ![p].entries = entries]
          /\ entry' = MarkDetached(entries, "Remove")
    /\ mu' = [mu EXCEPT !.writer = p]
    /\ UNCHANGED <<cfg, run, task, store, ret, panicked, lastShutdown>>

\* m.mu.Unlock()
RemoveUnlock(p) ==
    /\ Running
    /\ proc[p].pc = "remove_unlock"
    /\ mu' = Unlock
    /\ proc' = [proc EXCEPT ![p].pc = "remove_close", ![p].i = 1]
    /\ UNCHANGED <<cfg, run, subscriptions, entry, task, store, ret, panicked, lastShutdown>>

\* for _, entry := range entries { close(entry.stopChan) }
RemoveClose(p) ==
    /\ Running
    /\ proc[p].pc = "remove_close"
    /\ CloseNext(p)
    /\ UNCHANGED <<cfg, run, subscriptions, task, store, mu, ret, lastShutdown>>

\* mutant: the fallback to the store's count is missing
RemoveCount_LiveOnly(p) == Len(proc[p].entries)

\* if len(entries) > 0 { return len(entries), nil }; return deletedFromStore, nil
RemoveCount(p) ==
    IF Len(proc[p].entries) > 0 THEN Len(proc[p].entries) ELSE proc[p].deleted

\* the loop is over: the call returns its count
RemoveReturn(p) ==
    /\ Running
    /\ proc[p].pc = "remove_close"
    /\ proc[p].i > Len(proc[p].entries)
    /\ Return(p, [NoRet EXCEPT !.op = "Remove", !.ch = proc[p].ch,
                               !.count = RemoveCount(p),
                               !.live = Len(proc[p].entries),
                               !.deleted = proc[p].deleted])
    /\ entry' = MarkReturned(p)
    /\ UNCHANGED <<cfg, run, subscriptions, task, store, mu, panicked, lastShutdown>>

-----------------------------------------------------------------------------
(* Shutdown, lines 442-457 *)

\* mutant: the registry is not replaced
FreshRegistry_KeepsOld == subscriptions

\* m.subscriptions = make(map[string][]*subscriptionEntry)
FreshRegistry == EmptyMap

\* m.mu.Lock(); toStop := m.subscriptions; m.subscriptions = make(...)
ShutdownLock(p) ==
    /\ Running
    /\ proc[p].pc = "idle"
    /\ MuFree
    /\ \E o \in KeyOrders(subscriptions) :
          LET toStop == Flatten(subscriptions, o)
          IN /\ proc' = [proc EXCEPT ![p].pc = "shutdown_unlock", ![p].op = "Shutdown",
                                     ![p].entries = toStop,
                                     ![p].afterShutdown = (lastShutdown = "returned")]
             /\ entry' = MarkDetached(toStop, "Shutdown")
    /\ subscriptions' = FreshRegistry
    /\ mu' = [mu EXCEPT !.writer = p]
    /\ lastShutdown' = IF lastShutdown = "returned" THEN "returned" ELSE "detached"
    /\ UNCHANGED <<cfg, run, task, store, ret, panicked>>

\* m.mu.Unlock()
\* mutant: Shutdown deletes the rows of the store
ShutdownUnlock_DeletesRows(p) ==
    /\ Running
    /\ proc[p].pc = "shutdown_unlock"
    /\ mu' = Unlock
    /\ proc' = [proc EXCEPT ![p].pc = "shutdown_close", ![p].i = 1]
    /\ store' = <<>>
    /\ UNCHANGED <<cfg, run, subscriptions, entry, task, ret, panicked, lastShutdown>>

ShutdownUnlock(p) ==
    /\ Running
    /\ proc[p].pc = "shutdown_unlock"
    /\ mu' = Unlock
    /\ proc' = [proc EXCEPT ![p].pc = "shutdown_close", ![p].i = 1]
    /\ UNCHANGED <<cfg, run, subscriptions, entry, task, store, ret, panicked, lastShutdown>>

\* for _, entries := range toStop { total += len(entries); close each stopChan }
ShutdownClose(p) ==
    /\ Running
    /\ proc[p].pc = "shutdown_close"
    /\ CloseNext(p)
    /\ UNCHANGED <<cfg, run, subscriptions, task, store, mu, ret, lastShutdown>>

\* return total
ShutdownReturn(p) ==
    /\ Running
    /\ proc[p].pc = "shutdown_close"
    /\ proc[p].i > Len(proc[p].entries)
    /\ Return(p, [NoRet EXCEPT !.op = "Shutdown",
                               !.count = Len(proc[p].entries),
                               !.live = Len(proc[p].entries),
                               !.afterShutdown = proc[p].afterShutdown])
    /\ entry' = MarkReturned(p)
    /\ lastShutdown' = IF lastShutdown = "detached" THEN "returned" ELSE lastShutdown
    /\ UNCHANGED <<cfg, run, subscriptions, task, store, mu, panicked>>

-----------------------------------------------------------------------------
(* LoadExisting, lines 460-475 *)

\* mutant: the error of store.List is ignored
LoadQueue_IgnoresError(out) == ListRows(store)

\* mutant: only the first listed subscription is registered
LoadQueue_FirstOnly(out) ==
    IF out = "ok" /\ store # <<>> THEN <<Head(ListRows(store))>> ELSE <<>>

\* subs, err := m.store.List(ctx): the subscriptions the loop will register
\* (none without a store, none when List fails)
LoadQueue(out) == IF out = "ok" THEN ListRows(store) ELSE <<>>

\* store == nil, or store.List and the start of the register loop
LoadExisting(p) ==
    /\ Running
    /\ proc[p].pc = "idle"
    /\ Len(entry) + Pending + Len(store) <= MaxEntries
    /\ \E out \in StoreOutcomes :
          LET subs == LoadQueue(out)
          IN IF subs # <<>>
             THEN /\ proc' = [proc EXCEPT ![p].pc = "register", ![p].op = "LoadExisting",
                                          ![p].queue = subs, ![p].subs = subs,
                                          ![p].base = Len(entry),
                                          ![p].storeFailed = (out = "failed")]
                  /\ UNCHANGED ret
             ELSE Return(p, [NoRet EXCEPT !.op = "LoadExisting",
                                          !.err = IF out = "failed" THEN "load subscriptions"
                                                  ELSE None,
                                          !.storeFailed = (out = "failed")])
    /\ UNCHANGED <<cfg, run, subscriptions, entry, task, store, mu, panicked, lastShutdown>>

-----------------------------------------------------------------------------
(* ListByGuild, lines 478-499 *)

\* SubscriptionStore.ListByGuild: the stored subscriptions of guild g
StoreListByGuild(g) == InGuild(ListRows(store), g)

\* mutant: the scan does not compare GuildID
ScanRegistry_NoFilter(g, o) ==
    LET es == Flatten(subscriptions, o)
    IN [i \in 1..Len(es) |-> entry[es[i]].sub]

\* the subscriptions of the registry entries of guild g, keys in the order o
ScanRegistry(g, o) ==
    LET es == Flatten(subscriptions, o)
        subsOf[i \in 0..Len(es)] ==
            IF i = 0 THEN <<>>
            ELSE IF entry[es[i]].sub.GuildID = g
                 THEN Append(subsOf[i - 1], entry[es[i]].sub) ELSE subsOf[i - 1]
    IN subsOf[Len(es)]

\* with a store: return m.store.ListByGuild(ctx, guildID); else m.mu.RLock() and the scan
ListByGuild(p, g) ==
    /\ Running
    /\ proc[p].pc = "idle"
    /\ \E out \in StoreOutcomes :
          IF out = "skipped"
          THEN /\ mu.writer = None
               /\ mu' = [mu EXCEPT !.readers = @ \cup {p}]
               /\ \E o \in KeyOrders(subscriptions) :
                     proc' = [proc EXCEPT ![p].pc = "list_runlock", ![p].op = "ListByGuild",
                                          ![p].guild = g, ![p].subs = ScanRegistry(g, o)]
               /\ UNCHANGED ret
          ELSE /\ Return(p, [NoRet EXCEPT !.op = "ListByGuild", !.guild = g,
                                          !.err = IF out = "failed" THEN "store" ELSE None,
                                          !.subs = IF out = "ok" THEN StoreListByGuild(g)
                                                   ELSE <<>>,
                                          !.storeFailed = (out = "failed")])
               /\ UNCHANGED mu
    /\ UNCHANGED <<cfg, run, subscriptions, entry, task, store, panicked, lastShutdown>>

\* ListByGuild without a store, one map key at a time

\* the subscriptions of the entries es that belong to guild g, in order
CollectGuild(es, g) ==
    LET subsOf[i \in 0..Len(es)] ==
            IF i = 0 THEN <<>>
            ELSE IF entry[es[i]].sub.GuildID = g
                 THEN Append(subsOf[i - 1], entry[es[i]].sub) ELSE subsOf[i - 1]
    IN subsOf[Len(es)]

\* m.store == nil; m.mu.RLock(); var subs []domain.Subscription
ListByGuildRLock(p, g) ==
    /\ Running
    /\ proc[p].pc = "idle"
    /\ ~cfg.store
    /\ mu.writer = None
    /\ mu' = [mu EXCEPT !.readers = @ \cup {p}]
    /\ proc' = [proc EXCEPT ![p].pc = "list_scan", ![p].op = "ListByGuild", ![p].guild = g]
    /\ UNCHANGED <<cfg, run, subscriptions, entry, task, store, ret, panicked, lastShutdown>>

\* for _, entries := range m.subscriptions { ... }: the range produces a key
\* the map holds and has not produced yet; the inner loop collects its
\* entries of the guild
ListByGuildScan(p) ==
    /\ Running
    /\ proc[p].pc = "list_scan"
    /\ \E c \in DOMAIN subscriptions \ proc[p].seen :
          proc' = [proc EXCEPT ![p].seen = @ \cup {c},
                               ![p].subs = @ \o CollectGuild(subscriptions[c], proc[p].guild)]
    /\ UNCHANGED <<cfg, run, subscriptions, entry, task, store, mu, ret, panicked, lastShutdown>>

\* the range is exhausted
ListByGuildScanEnd(p) ==
    /\ Running
    /\ proc[p].pc = "list_scan"
    /\ DOMAIN subscriptions \ proc[p].seen = {}
    /\ proc' = [proc EXCEPT ![p].pc = "list_runlock"]
    /\ UNCHANGED <<cfg, run, subscriptions, entry, task, store, mu, ret, panicked, lastShutdown>>

\* return subs, nil, and the deferred m.mu.RUnlock()
ListByGuildReturn(p) ==
    /\ Running
    /\ proc[p].pc = "list_runlock"
    /\ mu' = [mu EXCEPT !.readers = @ \ {p}]
    /\ Return(p, [NoRet EXCEPT !.op = "ListByGuild", !.guild = proc[p].guild,
                               !.subs = proc[p].subs])
    /\ UNCHANGED <<cfg, run, subscriptions, entry, task, store, panicked, lastShutdown>>

-----------------------------------------------------------------------------
(* schedule, lines 501-518, and captureAndSend, lines 533-558 *)

\* the armed duration has elapsed: the runtime makes timer.C ready
TimerExpire(e) ==
    /\ Running
    /\ e \in Entries
    /\ task[e].pc = "WAITING"
    /\ task[e].timer # "elapsed"
    /\ task' = [task EXCEPT ![e].timer = "elapsed"]
    /\ UNCHANGED <<cfg, run, subscriptions, entry, store, mu, proc, ret, panicked, lastShutdown>>

\* mutant: the timer is reset before the pipeline runs
Fired_RearmsFirst(t) ==
    [t EXCEPT !.pc = "CAPTURING", !.timer = "interval", !.ctx = "live",
              !.capture = "called", !.err = None]

\* the goroutine inside captureAndSend, in m.capture.CaptureForecast with a
\* fresh ctxCapture; its timer has fired and is not armed
Fired(t) ==
    [t EXCEPT !.pc = "CAPTURING", !.timer = None, !.ctx = "live",
              !.capture = "called", !.err = None]

\* mutant: deliveries to one destination are serialized
CanFire_OnePerChannel(e) ==
    /\ task[e].pc = "WAITING"
    /\ task[e].timer = "elapsed"
    /\ \A f \in DOMAIN entry :
          (f # e /\ entry[f].sub.ChannelID = entry[e].sub.ChannelID)
              => task[f].pc \notin {"CAPTURING", "DISPATCHING", "RETURNED"}

\* the goroutine of e is at its select and timer.C is ready; nothing else is
\* consulted, no other entry and no lock
CanFire(e) ==
    /\ task[e].pc = "WAITING"
    /\ task[e].timer = "elapsed"

\* case <-timer.C: select takes this case, whether or not stopChan is ready too;
\* captureAndSend begins and calls m.capture.CaptureForecast
TaskFire(e) ==
    /\ Running
    /\ e \in Entries
    /\ CanFire(e)
    /\ IF cfg.capture
       THEN /\ task' = [task EXCEPT ![e] = Fired(@)]
            /\ UNCHANGED panicked
       ELSE /\ panicked' = "nil capture"
            /\ UNCHANGED task
    /\ UNCHANGED <<cfg, run, subscriptions, entry, store, mu, proc, ret, lastShutdown>>

\* mutant: the return after the capture error is missing
OnCaptureError_FallsThrough(t) ==
    [t EXCEPT !.pc = "DISPATCHING", !.ctx = "live", !.capture = "failed", !.dispatch = "called",
              !.reports = Append(@, "capture"), !.err = "capture"]

\* if err != nil { m.onError(sub, SubscriptionErrorStageCapture, ...); return err }
OnCaptureError(t) ==
    [t EXCEPT !.pc = "RETURNED", !.ctx = None, !.capture = "failed",
              !.reports = Append(@, "capture"), !.err = "capture"]

\* ctxCapture, context.WithTimeout(..., m.captureTimeout): the deadline passes
\* while CaptureForecast is pending
CaptureTimeout(e) ==
    /\ Running
    /\ e \in Entries
    /\ task[e].pc = "CAPTURING"
    /\ task[e].ctx = "live"
    /\ task' = [task EXCEPT ![e].ctx = "done"]
    /\ UNCHANGED <<cfg, run, subscriptions, entry, store, mu, proc, ret, panicked, lastShutdown>>

\* CaptureForecast returns: on error onError(capture) and return err;
\* otherwise m.sender.SendForecast is called with a fresh ctxSend.  The
\* capture port hands ctx down to the gRPC call (weather_usecase.go:27,
\* weather_service.go:55), which fails once ctx is done.
CaptureReturn(e) ==
    /\ Running
    /\ e \in Entries
    /\ task[e].pc = "CAPTURING"
    /\ \/ /\ task' = [task EXCEPT ![e] = OnCaptureError(@)]
          /\ UNCHANGED panicked
       \/ /\ task[e].ctx = "live"
          /\ cfg.sender
          /\ task' = [task EXCEPT ![e].pc = "DISPATCHING", ![e].ctx = "live",
                                  ![e].capture = "ok", ![e].dispatch = "called"]
          /\ UNCHANGED panicked
       \/ /\ task[e].ctx = "live"
          /\ ~cfg.sender
          /\ panicked' = "nil sender"
          /\ UNCHANGED task
    /\ UNCHANGED <<cfg, run, subscriptions, entry, store, mu, proc, ret, lastShutdown>>

\* mutant: a firing that fails at dispatch ends the goroutine
OnDispatchError_Exits(t) ==
    [t EXCEPT !.pc = "CANCELLED", !.ctx = None, !.dispatch = "failed",
              !.reports = Append(@, "dispatch"), !.err = "dispatch"]

\* mutant: the dispatch error is reported and then dropped (return nil)
OnDispatchError_ReturnsNil(t) ==
    [t EXCEPT !.pc = "RETURNED", !.ctx = None, !.dispatch = "failed",
              !.reports = Append(@, "dispatch")]

\* if err := m.sender.SendForecast(...); err != nil { m.onError(sub, ...Dispatch, ...); return err }
OnDispatchError(t) ==
    [t EXCEPT !.pc = "RETURNED", !.ctx = None, !.dispatch = "failed",
              !.reports = Append(@, "dispatch"), !.err = "dispatch"]

\* ctxSend, context.WithTimeout(..., m.dispatchTimeout): the deadline passes
\* while SendForecast is pending
DispatchTimeout(e) ==
    /\ Running
    /\ e \in Entries
    /\ task[e].pc = "DISPATCHING"
    /\ task[e].ctx = "live"
    /\ task' = [task EXCEPT ![e].ctx = "done"]
    /\ UNCHANGED <<cfg, run, subscriptions, entry, store, mu, proc, ret, panicked, lastShutdown>>

\* DiscordForecastSender.SendForecast reads ctx.Err() once, on entry, and
\* then calls session.ChannelMessageSendComplex(channelID, payload) without
\* ctx (forecast_sender.go:32-47): the request goes on after ctxSend is done
DispatchOverrun(e) ==
    /\ Running
    /\ e \in Entries
    /\ task[e].pc = "DISPATCHING"
    /\ task[e].ctx = "done"
    /\ task' = [task EXCEPT ![e].ctx = "overrun"]
    /\ UNCHANGED <<cfg, run, subscriptions, entry, store, mu, proc, ret, panicked, lastShutdown>>

\* SendForecast returns, when the session's request does: on error
\* onError(dispatch) and return err; otherwise return nil
DispatchReturn(e) ==
    /\ Running
    /\ e \in Entries
    /\ task[e].pc = "DISPATCHING"
    /\ \/ task' = [task EXCEPT ![e] = OnDispatchError(@)]
       \/ task' = [task EXCEPT ![e].pc = "RETURNED", ![e].ctx = None, ![e].dispatch = "ok"]
    /\ UNCHANGED <<cfg, run, subscriptions, entry, store, mu, proc, ret, panicked, lastShutdown>>

\* mutant: a failed firing ends the loop
Rearm_StopsOnError(t) ==
    IF t.err # None THEN [NoTask EXCEPT !.pc = "CANCELLED"]
    ELSE [NoTask EXCEPT !.pc = "WAITING", !.timer = "interval"]

\* mutant: after a successful firing the delay is computed anew from the target time
Rearm_RecomputesOnSuccess(t) ==
    [NoTask EXCEPT !.pc = "WAITING", !.err = t.err,
                   !.timer = IF t.err = None THEN "untilNextRun" ELSE "interval"]

\* if err := m.captureAndSend(...); err != nil { timer.Reset(m.interval); continue }
\* timer.Reset(m.interval)
\* (err stays on record until the next firing begins: the outcome of the last one)
Rearm(t) == [NoTask EXCEPT !.pc = "WAITING", !.timer = "interval", !.err = t.err]

\* captureAndSend has returned: the timer is reset and the loop is back at its select
TaskRearm(e) ==
    /\ Running
    /\ e \in Entries
    /\ task[e].pc = "RETURNED"
    /\ task' = [task EXCEPT ![e] = Rearm(@)]
    /\ UNCHANGED <<cfg, run, subscriptions, entry, store, mu, proc, ret, panicked, lastShutdown>>

\* mutant: the stop channel is watched during the pipeline too
Cancellable_Anytime(t) == t.pc \in {"WAITING", "CAPTURING", "DISPATCHING", "RETURNED"}

\* mutant: the select has no case for the stop channel
Cancellable_Never(t) == FALSE

\* the goroutine reads entry.stopChan only in its select
Cancellable(t) == t.pc = "WAITING"

\* case <-entry.stopChan: select takes this case, whether or not timer.C is
\* ready too; return (and the deferred timer.Stop())
TaskCancel(e) ==
    /\ Running
    /\ e \in Entries
    /\ Cancellable(task[e])
    /\ entry[e].stopChan = "closed"
    /\ task' = [task EXCEPT ![e] = [NoTask EXCEPT !.pc = "CANCELLED"]]
    /\ UNCHANGED <<cfg, run, subscriptions, entry, store, mu, proc, ret, panicked, lastShutdown>>

-----------------------------------------------------------------------------
(* nextRun, lines 560-578, on a manager of its own: the clock reading        *)
(* (nowFn), the target time and the interval option are the inputs            *)

\* the intervals a caller passes to WithSubscriptionInterval
IntervalOptions == {0, HourLen, DayLen + DayLen}

\* NewSubscriptionManager before its options are applied (interval: 24h),
\* the clock reading nowFn will give and the target of the subscription
InitNextRun ==
    /\ cfg = [capture |-> TRUE, sender |-> TRUE, store |-> FALSE]
    /\ subscriptions = EmptyMap
    /\ entry = <<>>
    /\ task = <<>>
    /\ store = <<>>
    /\ mu = Unlocked
    /\ proc = [p \in Procs |-> Idle]
    /\ ret = [p \in Procs |-> NoRet]
    /\ panicked = None
    /\ lastShutdown = None
    /\ \E loc \in Locations : \E now \in Instants(loc) : \E target \in Targets :
          run = [NoRun EXCEPT !.pc = "new", !.loc = loc, !.now = now, !.target = target,
                              !.interval = DefaultInterval]

\* WithSubscriptionInterval(interval): if interval > 0 { m.interval = interval }
WithSubscriptionInterval(interval) ==
    /\ run.pc = "new"
    /\ run' = [run EXCEPT !.pc = "built",
                          !.interval = IF interval > 0 THEN interval ELSE @]
    /\ UNCHANGED <<cfg, subscriptions, entry, task, store, mu, proc, ret, panicked,
                   lastShutdown>>

\* mutant: a candidate equal to now counts as still to come
After_OrEqual(t, u) == t >= u

\* scheduled.After(now)
After(t, u) == t > u

\* mutant: the interval is added even when today's slot is still to come
nextRun_AlwaysAdds(now, scheduled, interval) == scheduled + interval

\* if scheduled.After(now) { return scheduled }; return scheduled.Add(m.interval)
nextRun(now, scheduled, interval) ==
    IF After(scheduled, now) THEN scheduled ELSE scheduled + interval

\* m.nextRun(target): scheduled := time.Date(now's date, target's hour and minute, 0, 0, loc)
NextRunCall ==
    /\ run.pc \in {"new", "built"}
    /\ \E scheduled \in Date(run.loc, DayOf(run.loc, run.now), Hour(run.target),
                              Minute(run.target)) :
          run' = [run EXCEPT !.pc = "done", !.scheduled = scheduled,
                             !.next = nextRun(run.now, scheduled, run.interval)]
    /\ UNCHANGED <<cfg, subscriptions, entry, task, store, mu, proc, ret, panicked,
                   lastShutdown>>

-----------------------------------------------------------------------------
(* schedule, lines 501-518, on the time line: the instants of the firings   *)
(* of the goroutine that made the nextRun computation above                 *)

\* timer := time.NewTimer(time.Until(nextRun)): the timer is due at nextRun
StartTimer ==
    /\ run.pc = "done"
    /\ run' = [run EXCEPT !.pc = "armed", !.due = run.next, !.at = run.now]
    /\ UNCHANGED <<cfg, subscriptions, entry, task, store, mu, proc, ret, panicked,
                   lastShutdown>>

\* case <-timer.C: the timer is due (at once when its instant has passed)
\* and the goroutine gets to run latency seconds later; captureAndSend begins
TimerFires(latency) ==
    /\ run.pc = "armed"
    /\ run.k < MaxFirings
    /\ LET t == (IF run.due > run.at THEN run.due ELSE run.at) + latency
       IN run' = [run EXCEPT !.pc = "firing", !.k = @ + 1, !.firedAt = t, !.at = t]
    /\ UNCHANGED <<cfg, subscriptions, entry, task, store, mu, proc, ret, panicked,
                   lastShutdown>>

\* mutant: the timer is reset relative to the instant the firing began
ResetDue_FromFireTime(r, t) == r.firedAt + r.interval

\* timer.Reset(m.interval) at instant t: the timer is due at t + m.interval
ResetDue(r, t) == t + r.interval

\* captureAndSend returns after duration seconds, with or without error, and
\* the timer is reset
PipelineReturns(duration) ==
    /\ run.pc = "firing"
    /\ LET t == run.firedAt + duration
       IN run' = [run EXCEPT !.pc = "armed", !.at = t, !.due = ResetDue(run, t),
                             !.spent = @ + duration]
    /\ UNCHANGED <<cfg, subscriptions, entry, task, store, mu, proc, ret, panicked,
                   lastShutdown>>

-----------------------------------------------------------------------------
(* Specification *)

\* the steps of a caller
Call(p) ==
    \/ \E sub \in SubInputs : Add(p, sub)
    \/ RegisterLock(p)
    \/ RegisterUnlock(p)
    \/ RegisterGo(p)
    \/ \E ch \in Channels : Remove(p, ch)
    \/ RemoveLock(p)
    \/ RemoveUnlock(p)
    \/ RemoveClose(p)
    \/ RemoveReturn(p)
    \/ ShutdownLock(p)
    \/ ShutdownUnlock(p)
    \/ ShutdownClose(p)
    \/ ShutdownReturn(p)
    \/ LoadExisting(p)
    \/ \E g \in Guilds : ListByGuild(p, g)
    \/ ListByGuildReturn(p)
    \/ Resume(p)

\* the steps of the schedule goroutine of entry e
Schedule(e) ==
    \/ TimerExpire(e)
    \/ TaskFire(e)
    \/ CaptureTimeout(e)
    \/ CaptureReturn(e)
    \/ DispatchTimeout(e)
    \/ DispatchOverrun(e)
    \/ DispatchReturn(e)
    \/ TaskRearm(e)
    \/ TaskCancel(e)

\* one caller, every goroutine
Next ==
    \/ Call("p1")
    \/ \E e \in EntryIds : Schedule(e)

Spec == Init /\ [][Next]_vars

\* two concurrent callers; no timer elapses while they run
NextCallers ==
    \/ \E p \in Procs : Call(p)
    \/ \E e \in EntryIds : TaskCancel(e)

SpecCallers == Init /\ [][NextCallers]_vars

\* one nextRun computation for every clock reading, target and interval
NextNextRun ==
    \/ \E interval \in IntervalOptions : WithSubscriptionInterval(interval)
    \/ NextRunCall

SpecNextRun == InitNextRun /\ [][NextNextRun]_vars

\* a nextRun computation and the firings that follow it
NextFirings ==
    \/ NextNextRun
    \/ StartTimer
    \/ \E latency \in 0..MaxLatency : TimerFires(latency)
    \/ \E duration \in 0..MaxDuration : PipelineReturns(duration)

SpecFirings == InitNextRun /\ [][NextFirings]_vars

\* a manager with both ports and a store that holds no row
InitMirror ==
    /\ Init
    /\ cfg = [capture |-> TRUE, sender |-> TRUE, store |-> TRUE]
    /\ store = <<>>

\* an Add whose store.Create returns nil
AddStored(p, sub) == Add(p, sub) /\ proc'[p].pc = "register" /\ ~proc'[p].storeFailed

\* a Remove whose store.DeleteByChannel returns nil
RemoveStored(p, ch) == Remove(p, ch) /\ proc'[p].pc = "remove_lock"

\* two concurrent callers that make Add and Remove calls only, against a
\* store that does not fail
NextMirror ==
    \/ \E p \in Procs :
          \/ \E sub \in SubInputs : AddStored(p, sub)
          \/ RegisterLock(p)
          \/ RegisterUnlock(p)
          \/ RegisterGo(p)
          \/ \E ch \in Channels : RemoveStored(p, ch)
          \/ RemoveLock(p)
          \/ RemoveUnlock(p)
          \/ RemoveClose(p)
          \/ RemoveReturn(p)
          \/ Resume(p)
    \/ \E e \in EntryIds : TaskCancel(e)

SpecMirror == InitMirror /\ [][NextMirror]_vars

\* a manager with both ports and no store, for concurrent callers
InitSnapshot == Init /\ cfg = [capture |-> TRUE, sender |-> TRUE, store |-> FALSE]

\* two concurrent callers of Add, Remove, Shutdown and ListByGuild; the scan
\* of ListByGuild takes one step per map key
NextSnapshot ==
    \/ \E p \in Procs :
          \/ \E sub \in SubInputs : Add(p, sub)
          \/ RegisterLock(p)
          \/ RegisterUnlock(p)
          \/ RegisterGo(p)
          \/ \E ch \in Channels : Remove(p, ch)
          \/ RemoveLock(p)
          \/ RemoveUnlock(p)
          \/ RemoveClose(p)
          \/ RemoveReturn(p)
          \/ ShutdownLock(p)
          \/ ShutdownUnlock(p)
          \/ ShutdownClose(p)
          \/ ShutdownReturn(p)
          \/ \E g \in Guilds : ListByGuildRLock(p, g)
          \/ ListByGuildScan(p)
          \/ ListByGuildScanEnd(p)
          \/ ListByGuildReturn(p)
          \/ Resume(p)
    \/ \E e \in EntryIds : TaskCancel(e)

SpecSnapshot == InitSnapshot /\ [][NextSnapshot]_vars

\* a manager with both ports and no store
InitLive == Init /\ cfg = [capture |-> TRUE, sender |-> TRUE, store |-> FALSE]

\* the first Add of a manager
AddFirst(p, sub) == entry = <<>> /\ Add(p, sub)

\* one caller that adds one subscription and then removes and shuts down at
\* will, and the goroutine of the entry
NextLive ==
    \/ \E sub \in SubInputs : AddFirst("p1", sub)
    \/ RegisterLock("p1")
    \/ RegisterUnlock("p1")
    \/ RegisterGo("p1")
    \/ \E ch \in Channels : Remove("p1", ch)
    \/ RemoveLock("p1")
    \/ RemoveUnlock("p1")
    \/ RemoveClose("p1")
    \/ RemoveReturn("p1")
    \/ ShutdownLock("p1")
    \/ ShutdownUnlock("p1")
    \/ ShutdownClose("p1")
    \/ ShutdownReturn("p1")
    \/ Resume("p1")
    \/ \E e \in EntryIds : Schedule(e)

\* every port call returns and the goroutine goes on after it (weak
\* fairness); a select that finds the stop channel ready again and again
\* takes that case in the end, its choice among ready cases being random
\* (strong fairness).  Nothing is assumed of the timers or of the caller.
Fairness ==
    \A e \in EntryIds :
        /\ WF_vars(CaptureReturn(e))
        /\ WF_vars(DispatchReturn(e))
        /\ WF_vars(TaskRearm(e))
        /\ SF_vars(TaskCancel(e))

SpecLive == InitLive /\ [][NextLive]_vars /\ Fairness

-----------------------------------------------------------------------------
(* Claims *)

ConfigErrors == {"missing forecast capture dependency", "missing forecast sender dependency"}

\* the step is the first step of a call of p to operation op
Calls(p, op) == proc[p].pc = "idle" /\ (proc'[p].op = op \/ ret'[p].op = op)

\* the step is the return of a Remove of p whose loop is over
RemoveReturns(p) == proc[p].pc = "remove_close" /\ proc'[p].pc = "returned"

\* C1: once a Remove(destination) has returned, no schedule goroutine of an
\* entry that Remove detached begins a pipeline invocation (calls the capture
\* port), whichever of timer.C and stopChan its select finds ready.
C1_NoFireAfterRemove ==
    [][\A e \in Entries :
          (entry[e].detachedBy = "Remove" /\ entry[e].opReturned /\ task[e].pc = "WAITING")
              => task'[e].pc # "CAPTURING"]_vars

\* C2: a Shutdown that begins after an earlier Shutdown has returned, with no
\* entry registered since that earlier Shutdown emptied the registry, finds
\* nothing to close, does not panic on a close, and returns 0.
C2_SecondShutdownReturnsZero ==
    \A p \in Procs :
        /\ (proc[p].op = "Shutdown" /\ proc[p].afterShutdown)
              => (proc[p].entries = <<>> /\ panicked # "close of closed channel")
        /\ (ret[p].op = "Shutdown" /\ ret[p].afterShutdown) => ret[p].count = 0

\* a second Shutdown has returned after a first one that cancelled an entry
C2_Witness ==
    \E p \in Procs :
        /\ ret[p].op = "Shutdown" /\ ret[p].afterShutdown
        /\ \E e \in Entries : entry[e].detachedBy = "Shutdown" /\ entry[e].stopChan = "closed"

\* C3: with Remove and Shutdown calls running concurrently, no close(stopChan)
\* ever meets a channel that is already closed, and an entry is never held
\* by the registry and by a call that detached it, nor by two such calls.
C3_StopChanClosedOnce ==
    /\ panicked # "close of closed channel"
    /\ \A e \in Entries :
          Cardinality({p \in Procs : \E i \in DOMAIN proc[p].entries : proc[p].entries[i] = e})
            + Cardinality({c \in DOMAIN subscriptions :
                             \E i \in DOMAIN subscriptions[c] : subscriptions[c][i] = e}) <= 1

\* two calls are in their close loops at once, one of them a Remove that has
\* closed an entry, the other a Remove of the same channel or a Shutdown
C3_Witness ==
    \E p, q \in Procs :
        /\ p # q
        /\ proc[p].pc = "remove_close" /\ proc[p].i > 1
        /\ \/ proc[q].pc = "remove_close" /\ proc[q].ch = proc[p].ch
           \/ proc[q].pc = "shutdown_close" /\ proc[q].entries # <<>>

\* C4: an Add on a manager without capture port or without dispatch port
\* returns a configuration error in its first step and leaves the registry,
\* the entries, the goroutines and the store as they were.
C4_AddWithoutPortsFails ==
    [][\A p \in Procs :
          (Calls(p, "Add") /\ ~(cfg.capture /\ cfg.sender))
              => /\ proc'[p].pc = "returned"
                 /\ ret'[p].err \in ConfigErrors
                 /\ UNCHANGED <<subscriptions, entry, task, store>>]_vars

\* an Add has failed for want of the dispatch port, on a manager with a store
C4_Witness ==
    \E p \in Procs :
        /\ ret[p].op = "Add" /\ ret[p].err = "missing forecast sender dependency"
        /\ cfg.store

\* C5: an Add whose store.Create fails returns an error at once and leaves
\* the registry, the entries and the goroutines as they were.
C5_AddPersistFailureAborts ==
    [][\A p \in Procs :
          (Calls(p, "Add") /\ (proc'[p].storeFailed \/ ret'[p].storeFailed))
              => /\ proc'[p].pc = "returned"
                 /\ ret'[p].err = "persist subscription"
                 /\ UNCHANGED <<subscriptions, entry, task, store>>]_vars

\* an Add has failed on store.Create while the registry holds an entry
C5_Witness ==
    \E p \in Procs :
        /\ ret[p].op = "Add" /\ ret[p].storeFailed
        /\ DOMAIN subscriptions # {}

\* C6: a Remove whose store.DeleteByChannel fails returns (0, error) at once
\* and leaves the registry and every entry (its stop channel included) as
\* they were.
C6_RemoveDeleteFailureAborts ==
    [][\A p \in Procs :
          (Calls(p, "Remove") /\ (proc'[p].storeFailed \/ ret'[p].storeFailed))
              => /\ proc'[p].pc = "returned"
                 /\ ret'[p].err = "delete subscriptions"
                 /\ ret'[p].count = 0
                 /\ UNCHANGED <<subscriptions, entry, task, store>>]_vars

\* a Remove has failed on the store while its channel holds an open entry
C6_Witness ==
    \E p \in Procs :
        /\ ret[p].op = "Remove" /\ ret[p].storeFailed
        /\ ret[p].ch \in DOMAIN subscriptions
        /\ \E i \in DOMAIN subscriptions[ret[p].ch] :
              entry[subscriptions[ret[p].ch][i]].stopChan = "open"

\* C7: the store's count that Remove keeps is the number of rows stored for
\* the channel (0 without a store), and a Remove that runs to its end returns
\* the number of entries it detached when that is not zero, and the store's
\* count otherwise.
C7_RemoveCount ==
    [][\A p \in Procs :
          /\ (Calls(p, "Remove") /\ proc'[p].op = "Remove")
                => proc'[p].deleted = IF cfg.store THEN RowsFor(store, proc'[p].ch) ELSE 0
          /\ RemoveReturns(p)
                => /\ ret'[p].err = None
                   /\ ret'[p].count = IF Len(proc[p].entries) > 0
                                      THEN Len(proc[p].entries) ELSE proc[p].deleted]_vars

\* a Remove that found no live entry has returned the store's count
C7_Witness ==
    \E p \in Procs :
        ret[p].op = "Remove" /\ ret[p].err = None /\ ret[p].live = 0 /\ ret[p].count > 0

\* C8: Remove takes every entry the registry holds for its channel and deletes
\* the channel's key; when it returns, each of those entries has its stop
\* channel closed and the count is their number (0 when there was none and no
\* store is configured).
C8_RemoveDetachesAll ==
    [][\A p \in Procs :
          /\ (proc[p].pc = "remove_lock" /\ proc'[p].pc = "remove_unlock")
                => /\ proc'[p].entries = IF proc[p].ch \in DOMAIN subscriptions
                                         THEN subscriptions[proc[p].ch] ELSE <<>>
                   /\ proc[p].ch \notin DOMAIN subscriptions'
          /\ RemoveReturns(p)
                => /\ \A i \in DOMAIN proc[p].entries :
                         entry[proc[p].entries[i]].stopChan = "closed"
                   /\ Len(proc[p].entries) > 0 => ret'[p].count = Len(proc[p].entries)
                   /\ (Len(proc[p].entries) = 0 /\ ~cfg.store) => ret'[p].count = 0]_vars

\* a Remove of a channel with two entries has returned 2 with both closed
C8_Witness ==
    \E p \in Procs :
        /\ ret[p].op = "Remove" /\ ret[p].count = 2 /\ ret[p].live = 2
        /\ Cardinality({e \in Entries : /\ entry[e].detachedBy = "Remove"
                                        /\ entry[e].sub.ChannelID = ret[p].ch
                                        /\ entry[e].stopChan = "closed"}) = 2

\* C9: in a firing whose capture failed the dispatch port is not called and
\* the error sink has exactly one report, tagged capture.
C9_CaptureFailureIsolated ==
    \A e \in Entries :
        task[e].capture = "failed"
            => /\ task[e].pc = "RETURNED"
               /\ task[e].dispatch = None
               /\ task[e].reports = <<"capture">>

\* a firing has failed at capture
C9_Witness == \E e \in Entries : task[e].capture = "failed" /\ task[e].pc = "RETURNED"

\* C10: in a firing whose capture succeeded and whose dispatch failed, the
\* error sink has exactly one report, tagged dispatch, and the goroutine can
\* go on and its next step resets the timer to the interval and is back at
\* the select (WAITING); it does not stop.
C10_DispatchFailureRearms ==
    [][\A e \in Entries :
          (task[e].capture = "ok" /\ task[e].dispatch = "failed")
              => /\ task[e].pc = "RETURNED"
                 /\ task[e].reports = <<"dispatch">>
                 /\ Running => ENABLED TaskRearm(e)
                 /\ task'[e] # task[e]
                       => (task'[e].pc = "WAITING" /\ task'[e].timer = "interval")]_vars

\* a firing has failed at dispatch after a successful capture
C10_Witness ==
    \E e \in Entries :
        task[e].capture = "ok" /\ task[e].dispatch = "failed" /\ task[e].pc = "RETURNED"

\* C11: whatever the outcome of a firing (success, capture failure, dispatch
\* failure), once captureAndSend has returned the goroutine can go on, and
\* its next step resets the timer to the configured interval and is back at
\* the select; a timer armed after a firing is armed with the interval.
C11_RearmsToInterval ==
    [][\A e \in Entries :
          /\ task[e].pc = "RETURNED"
                => /\ task[e].err \in {None, "capture", "dispatch"}
                   /\ Running => ENABLED TaskRearm(e)
                   /\ task'[e] # task[e]
                         => (task'[e].pc = "WAITING" /\ task'[e].timer = "interval")
          /\ (task[e].pc # "RETURNED" /\ task'[e].pc = "WAITING" /\ task[e].pc # None)
                => task'[e].timer \in {task[e].timer, "elapsed"}]_vars

\* two goroutines wait on a timer re-armed with the interval, one after a
\* successful firing and one after a capture failure
C11_Witness ==
    \E e1, e2 \in Entries :
        /\ task[e1].pc = "WAITING" /\ task[e1].timer = "interval" /\ task[e1].err = None
        /\ task[e2].pc = "WAITING" /\ task[e2].timer = "interval" /\ task[e2].err = "capture"

\* the goroutine of an entry has been launched and has not returned
LiveTask == {"WAITING", "CAPTURING", "DISPATCHING", "RETURNED"}

\* the entries the registry holds
InRegistry ==
    {e \in Entries : \E c \in DOMAIN subscriptions :
                        \E i \in DOMAIN subscriptions[c] : subscriptions[c][i] = e}

\* C12 as stated: in every reachable state every entry of the registry has a
\* goroutine that has been launched and has not returned.
C12_EveryEntryHasTask == \A e \in InRegistry : task[e].pc \in LiveTask

\* C12, amended: every entry of the registry has a goroutine that has been
\* launched and has not returned, and that goroutine can take a step while
\* the process runs; the one exception is the entry a register call has
\* inserted and not yet passed to its go statement.
C12_EntryHasTaskOrIsBeingLaunched ==
    \A e \in InRegistry :
        \/ /\ task[e].pc \in LiveTask
           /\ Running => ENABLED Schedule(e)
        \/ /\ task[e].pc = None
           /\ \E p \in Procs : /\ proc[p].pc \in {"register_unlock", "register_go"}
                                /\ proc[p].cur = e

\* the registry holds one entry whose goroutine waits and one entry that
\* register has inserted and unlocked but not yet launched
C12_Witness ==
    \E e1, e2 \in InRegistry :
        /\ task[e1].pc = "WAITING"
        /\ task[e2].pc = None
        /\ \E p \in Procs : proc[p].pc = "register_go" /\ proc[p].cur = e2

\* C13: a LoadExisting on a manager without store returns nil in its first
\* step, and one whose store.List fails returns an error in its first step;
\* both leave the registry, the entries, the goroutines and the store as
\* they were.
C13_LoadWithoutStoreOrListFailure ==
    [][\A p \in Procs :
          /\ (Calls(p, "LoadExisting") /\ ~cfg.store)
                => /\ proc'[p].pc = "returned"
                   /\ ret'[p].err = None
                   /\ UNCHANGED <<subscriptions, entry, task, store>>
          /\ (Calls(p, "LoadExisting") /\ (proc'[p].storeFailed \/ ret'[p].storeFailed))
                => /\ proc'[p].pc = "returned"
                   /\ ret'[p].err = "load subscriptions"
                   /\ UNCHANGED <<subscriptions, entry, task, store>>]_vars

\* a LoadExisting has failed on store.List while the store holds rows and
\* no entry exists
C13_Witness ==
    \E p \in Procs :
        /\ ret[p].op = "LoadExisting" /\ ret[p].storeFailed
        /\ store # <<>> /\ entry = <<>>

\* the step is the return of a LoadExisting of p that registered its list
LoadReturns(p) ==
    proc[p].op = "LoadExisting" /\ proc[p].pc = "register_go" /\ proc'[p].pc = "returned"

\* C14: a LoadExisting whose store.List succeeds takes one subscription per
\* stored row; each register step adds exactly one new entry to the registry,
\* under the destination of its subscription and with an open stop channel
\* of its own; when the call returns nil, the N listed subscriptions have N
\* new entries, all in the registry and each with a launched goroutine.
C14_LoadRegistersEachRow ==
    [][\A p \in Procs :
          /\ (Calls(p, "LoadExisting") /\ cfg.store
                 /\ ~(proc'[p].storeFailed \/ ret'[p].storeFailed))
                => IF store = <<>>
                   THEN proc'[p].pc = "returned" /\ ret'[p].err = None /\ entry' = entry
                   ELSE /\ Len(proc'[p].subs) = Len(store)
                        /\ \A i \in DOMAIN store :
                              /\ proc'[p].subs[i].ChannelID = store[i].ChannelID
                              /\ proc'[p].subs[i].GuildID = store[i].GuildID
                              /\ proc'[p].subs[i].Time.hm = store[i].TimeOfDay.hm
          /\ (proc[p].op = "LoadExisting" /\ proc[p].pc = "register"
                 /\ proc'[p].pc = "register_unlock")
                => LET id == Len(entry) + 1
                   IN /\ Len(entry') = id
                      /\ InRegistry' = InRegistry \cup {id}
                      /\ id \notin InRegistry
                      /\ entry'[id].stopChan = "open"
                      /\ \E i \in DOMAIN subscriptions'[entry'[id].sub.ChannelID] :
                            subscriptions'[entry'[id].sub.ChannelID][i] = id
          /\ LoadReturns(p)
                => /\ ret'[p].err = None
                   /\ Len(entry) = proc[p].base + Len(proc[p].subs)
                   /\ \A i \in DOMAIN proc[p].subs :
                         LET e == proc[p].base + i
                         IN /\ entry[e].sub = proc[p].subs[i]
                            /\ e \in InRegistry
                            /\ task'[e].pc \in LiveTask]_vars

\* a LoadExisting of two stored rows has returned nil: two entries under two
\* destinations, both in the registry, both with a goroutine
C14_Witness ==
    \E p \in Procs :
        /\ ret[p].op = "LoadExisting" /\ ret[p].err = None /\ Len(ret[p].subs) = 2
        /\ Len(entry) = 2 /\ InRegistry = {1, 2}
        /\ entry[1].sub.ChannelID # entry[2].sub.ChannelID
        /\ \A e \in {1, 2} : task[e].pc \in LiveTask /\ entry[e].stopChan = "open"

\* the seconds from midnight to the target time on a day without clock change
TargetOffset(t) == Hour(t) * HourLen + Minute(t) * MinuteLen

\* C15: the candidate nextRun builds reads target hour:minute:00 on the
\* calendar date of now; the first fire instant is the candidate when the
\* candidate is strictly after now, and the candidate plus the configured
\* interval when it is at or before now.
C15_FirstFireInstant ==
    run.pc = "done"
        => /\ Clock(run.loc, run.scheduled) =
                  [day |-> DayOf(run.loc, run.now), hour |-> Hour(run.target),
                   minute |-> Minute(run.target), second |-> 0]
           /\ run.scheduled > run.now => run.next = run.scheduled
           /\ run.scheduled <= run.now => run.next = run.scheduled + run.interval

\* with a configured interval of one hour, a candidate equal to now has
\* given a first fire instant one hour after now
C15_Witness ==
    /\ run.pc = "done"
    /\ run.interval = HourLen
    /\ run.scheduled = run.now
    /\ run.next = run.now + HourLen

\* the delay from now to the first fire instant
FirstDelay == run.next - run.now

\* C16 as stated: with the default interval the delay from now to the first
\* fire instant is greater than 0 and at most 24 hours, for every target and
\* every instant.
C16_DelayWithinDay ==
    (run.pc = "done" /\ run.interval = DefaultInterval)
        => (FirstDelay > 0 /\ FirstDelay <= DefaultInterval)

\* C16, amended: with the default interval, when the calendar day of now has
\* 24 hours (no clock change on it), the delay is the time from now's wall
\* clock to the target time when the target is later in the day, and 24
\* hours less the time since the target otherwise; it is greater than 0 and
\* at most 24 hours.
C16_DelayWithinDayWithoutClockChange ==
    (run.pc = "done" /\ run.interval = DefaultInterval
       /\ DayLength(run.loc, DayOf(run.loc, run.now)) = DayLen)
        => LET sinceMidnight == run.now - DayStart(run.loc, DayOf(run.loc, run.now))
               target == TargetOffset(run.target)
           IN /\ FirstDelay = IF target > sinceMidnight THEN target - sinceMidnight
                              ELSE DayLen - (sinceMidnight - target)
              /\ FirstDelay > 0
              /\ FirstDelay <= DefaultInterval

\* the clock reads 03:00:00, the target is 02:00: the first fire is one hour
\* less than a day away (the scale of the spec's 09:00 against 08:00)
C16_Witness ==
    /\ run.pc = "done" /\ run.interval = DefaultInterval /\ run.loc = "UTC"
    /\ Clock(run.loc, run.now) = [day |-> 0, hour |-> 3, minute |-> 0, second |-> 0]
    /\ Hour(run.target) = 2 /\ Minute(run.target) = 0
    /\ FirstDelay = DayLen - HourLen

\* the entries a call of p holds detached
Held(p) == {proc[p].entries[i] : i \in DOMAIN proc[p].entries}

\* C17: Shutdown, in the one step it takes under the lock, leaves an empty
\* registry and takes away every entry the registry held, each once,
\* whatever its destination; when it returns, every one of those entries has
\* its stop channel closed and the count returned is their number.
C17_ShutdownDetachesAll ==
    [][\A p \in Procs :
          /\ (Calls(p, "Shutdown") /\ proc'[p].op = "Shutdown")
                => /\ subscriptions' = EmptyMap
                   /\ Held(p)' = InRegistry
                   /\ Len(proc'[p].entries) = Cardinality(InRegistry)
          /\ (proc[p].pc = "shutdown_close" /\ proc'[p].pc = "returned")
                => /\ \A e \in Held(p) : entry[e].stopChan = "closed"
                   /\ ret'[p].count = Cardinality(Held(p))]_vars

\* a Shutdown has returned 2 after closing two entries of two destinations
C17_Witness ==
    \E p \in Procs :
        /\ ret[p].op = "Shutdown" /\ ret[p].count = 2
        /\ Len(entry) = 2 /\ entry[1].sub.ChannelID # entry[2].sub.ChannelID
        /\ \A e \in {1, 2} : entry[e].detachedBy = "Shutdown" /\ entry[e].stopChan = "closed"
        /\ subscriptions = EmptyMap

\* C18: an Add that passes the port checks and the store goes on to register
\* whatever the registry already holds; its register step appends a new
\* entry, with an open stop channel and no goroutine yet, after the entries
\* its channel already has (one for the same subscription included) and
\* leaves every earlier entry and goroutine as it was.
C18_DuplicatesAreRegistered ==
    [][\A p \in Procs :
          /\ (Calls(p, "Add") /\ cfg.capture /\ cfg.sender
                 /\ ~(proc'[p].storeFailed \/ ret'[p].storeFailed))
                => proc'[p].pc = "register"
          /\ (proc[p].op = "Add" /\ proc[p].pc = "register"
                 /\ proc'[p].pc = "register_unlock")
                => LET sub == Head(proc[p].queue)
                       id == Len(entry) + 1
                       old == IF sub.ChannelID \in DOMAIN subscriptions
                              THEN subscriptions[sub.ChannelID] ELSE <<>>
                   IN /\ subscriptions'[sub.ChannelID] = old \o <<id>>
                      /\ Len(entry') = id
                      /\ entry'[id].sub = sub /\ entry'[id].stopChan = "open"
                      /\ task'[id].pc = None
                      /\ \A e \in Entries : entry'[e] = entry[e] /\ task'[e] = task[e]]_vars

\* two entries of the same destination and the same target time are in the
\* registry and both have fired: both are in their pipeline at once
C18_Witness ==
    /\ Len(entry) = 2 /\ entry[1].sub = entry[2].sub
    /\ InRegistry = {1, 2}
    /\ task[1].pc = "CAPTURING" /\ task[2].pc = "DISPATCHING"
    /\ entry[1].stopChan = "open" /\ entry[2].stopChan = "open"

\* the sequence subs holds, with multiplicity, exactly the subscriptions of
\* the registry entries of guild g
HoldsRegistryOf(subs, g) ==
    /\ Len(subs) = Cardinality({e \in InRegistry : entry[e].sub.GuildID = g})
    /\ \A e \in InRegistry :
          entry[e].sub.GuildID = g
              => Cardinality({i \in DOMAIN subs : subs[i] = entry[e].sub})
                   = Cardinality({f \in InRegistry : entry[f].sub = entry[e].sub})

\* C19: with a store, ListByGuild returns in one step what the store's
\* ListByGuild gives (its list or its error), whatever the registry holds;
\* without a store it collects, under the read lock, exactly the
\* subscriptions of the registry entries whose GuildID is the one asked for,
\* and returns them with a nil error while the registry still holds those
\* entries.  Neither path changes the registry, an entry, a goroutine or
\* the store.
C19_ListByGuild ==
    [][\A p \in Procs :
          /\ Calls(p, "ListByGuild")
                => /\ UNCHANGED <<subscriptions, entry, task, store>>
                   /\ IF cfg.store
                      THEN /\ proc'[p].pc = "returned"
                           /\ UNCHANGED mu
                           /\ IF ret'[p].storeFailed
                              THEN ret'[p].err # None /\ ret'[p].subs = <<>>
                              ELSE /\ ret'[p].err = None
                                   /\ ret'[p].subs = StoreListByGuild(ret'[p].guild)
                      ELSE /\ proc'[p].pc = "list_runlock"
                           /\ p \in mu'.readers
                           /\ HoldsRegistryOf(proc'[p].subs, proc'[p].guild)
          /\ (proc[p].pc = "list_runlock" /\ proc'[p].pc = "returned")
                => /\ UNCHANGED <<subscriptions, entry, task, store>>
                   /\ ret'[p].err = None
                   /\ ret'[p].guild = proc[p].guild
                   /\ HoldsRegistryOf(ret'[p].subs, ret'[p].guild)]_vars

\* without a store, with entries of two guilds in the registry, ListByGuild
\* of one guild has returned that guild's one subscription
C19_Witness ==
    \E p \in Procs :
        /\ ~cfg.store
        /\ ret[p].op = "ListByGuild" /\ ret[p].err = None
        /\ Len(ret[p].subs) = 1 /\ ret[p].subs[1].GuildID = ret[p].guild
        /\ Cardinality(InRegistry) = 2
        /\ \E e \in InRegistry : entry[e].sub.GuildID # ret[p].guild

\* C20: no port call of a firing is still pending once the deadline of its
\* stage's context has passed: the firing is never suspended beyond the
\* capture timeout plus the dispatch timeout.
C20_NoCallPendingPastTimeout ==
    \A e \in Entries :
        task[e].pc \in {"CAPTURING", "DISPATCHING"} => task[e].ctx \in {"live", "done"}

\* C21: a step of a launched goroutine (its timer, a firing, the return of a
\* port call, the re-arming) leaves the registry, every entry with its stop
\* channel, the store, the lock, every call in progress and every result a
\* caller holds as they were; the error of a failed stage is appended to
\* the reports of the error sink; and a goroutine exits only when its stop
\* channel is closed, never because its firing failed.
C21_FiringLeavesRegistryAlone ==
    [][\A e \in Entries :
          (task[e].pc \in LiveTask /\ task'[e] # task[e])
              => /\ UNCHANGED <<subscriptions, entry, store, mu, proc, ret>>
                 /\ (task'[e].err # None /\ task[e].err = None)
                       => task'[e].reports = Append(task[e].reports, task'[e].err)
                 /\ task'[e].pc = "CANCELLED" => entry[e].stopChan = "closed"]_vars

\* an entry whose last firing failed is still in the registry with an open
\* stop channel, its timer re-armed and elapsed again; no call has returned
\* an error
C21_Witness ==
    \E e \in InRegistry :
        /\ task[e].pc = "WAITING" /\ task[e].timer = "elapsed" /\ task[e].err = "dispatch"
        /\ entry[e].stopChan = "open"
        /\ \A p \in Procs : ret[p].err = None

\* C22: when captureAndSend has returned, its result is nil exactly when
\* the capture port and the dispatch port both succeeded in this
\* invocation; and whenever the dispatch port has been called in an
\* invocation, the capture port had returned success in it.
C22_SuccessIffBothStages ==
    \A e \in Entries :
        /\ task[e].pc = "RETURNED"
              => (task[e].err = None <=> (task[e].capture = "ok" /\ task[e].dispatch = "ok"))
        /\ task[e].dispatch # None => task[e].capture = "ok"
        /\ task[e].pc = "DISPATCHING" => task[e].capture = "ok"

\* an invocation has returned nil after both ports succeeded
C22_Witness ==
    \E e \in Entries :
        /\ task[e].pc = "RETURNED" /\ task[e].err = None
        /\ task[e].capture = "ok" /\ task[e].dispatch = "ok"

\* the goroutine is inside captureAndSend or between its return and the reset
\* of the timer (the spec's FIRING)
Firing == {"CAPTURING", "DISPATCHING", "RETURNED"}

\* C23: a goroutine, once launched at its select (WAITING), moves only from
\* WAITING into a firing with its timer elapsed, within a firing from the
\* capture call to the dispatch call or to the return and from the dispatch
\* call to the return, from the return back to WAITING, and from WAITING to
\* CANCELLED with its stop channel closed; a goroutine that is CANCELLED
\* never changes again: no port call, no report.
C23_TaskTransitions ==
    [][\A e \in Entries :
          /\ task'[e].pc # task[e].pc
                => \/ task[e].pc = None /\ task'[e].pc = "WAITING"
                   \/ /\ task[e].pc = "WAITING" /\ task'[e].pc = "CAPTURING"
                      /\ task[e].timer = "elapsed"
                   \/ task[e].pc = "CAPTURING" /\ task'[e].pc \in {"DISPATCHING", "RETURNED"}
                   \/ task[e].pc = "DISPATCHING" /\ task'[e].pc = "RETURNED"
                   \/ task[e].pc = "RETURNED" /\ task'[e].pc = "WAITING"
                   \/ /\ task[e].pc = "WAITING" /\ task'[e].pc = "CANCELLED"
                      /\ entry[e].stopChan = "closed"
          /\ task[e].pc = "CANCELLED" => task'[e] = task[e]]_vars

\* a goroutine has observed the stop signal a returned Remove had closed
C23_Witness ==
    \E e \in Entries :
        /\ task[e].pc = "CANCELLED" /\ task[e].capture = None /\ task[e].reports = <<>>
        /\ entry[e].stopChan = "closed" /\ entry[e].detachedBy = "Remove"
        /\ entry[e].opReturned

\* C24: a goroutine has an armed timer exactly while it waits at its
\* select: during a firing its timer is not armed, so no second firing of
\* the entry can begin; a firing begins only from the select, and the timer
\* is armed with the interval only by the step that follows the return of
\* captureAndSend.
C24_FiringsDoNotOverlap ==
    [][\A e \in Entries :
          /\ task[e].pc \in Firing => task[e].timer = None
          /\ task[e].pc = "WAITING" => task[e].timer \in {"untilNextRun", "interval", "elapsed"}
          /\ (task'[e].pc = "CAPTURING" /\ task[e].pc # "CAPTURING") => task[e].pc = "WAITING"
          /\ (task'[e].timer = "interval" /\ task[e].timer # "interval")
                => task[e].pc = "RETURNED"]_vars

\* one entry waits on a timer re-armed after a failed firing while another
\* entry is inside a firing, its timer not armed
C24_Witness ==
    \E e \in Entries :
        /\ task[e].pc = "WAITING" /\ task[e].timer = "interval" /\ task[e].err # None
        /\ \E f \in Entries : f # e /\ task[f].pc \in Firing /\ task[f].timer = None

\* the capture call of e returns success and the dispatch port is called
CaptureSucceeds(e) == CaptureReturn(e) /\ task'[e].pc = "DISPATCHING"

\* C25: closing the stop channel of an entry leaves its goroutine as it is;
\* while the stop channel is closed and the goroutine is inside a firing,
\* the goroutine does not exit: a capture call still pending within its
\* timeout can return success and then the dispatch port is called, a
\* firing's steps go on to the return and the re-arming, and only from the
\* select (WAITING) does the goroutine reach CANCELLED.
C25_CancelDoesNotAbortFiring ==
    [][\A e \in Entries :
          /\ (entry[e].stopChan = "open" /\ entry'[e].stopChan = "closed")
                => task'[e] = task[e]
          /\ (entry[e].stopChan = "closed" /\ task[e].pc \in Firing)
                => /\ task'[e].pc # "CANCELLED"
                   /\ task'[e].pc # task[e].pc
                         => \/ task[e].pc = "CAPTURING"
                                  /\ task'[e].pc \in {"DISPATCHING", "RETURNED"}
                            \/ task[e].pc = "DISPATCHING" /\ task'[e].pc = "RETURNED"
                            \/ task[e].pc = "RETURNED" /\ task'[e].pc = "WAITING"
                   /\ (Running /\ cfg.sender /\ task[e].pc = "CAPTURING"
                          /\ task[e].ctx = "live")
                         => ENABLED CaptureSucceeds(e)
                   /\ Running => ENABLED Schedule(e)]_vars

\* a Remove has closed the stop channel of an entry and returned while the
\* entry's capture call is pending
C25_Witness ==
    \E e \in Entries :
        /\ entry[e].stopChan = "closed" /\ entry[e].opReturned
        /\ task[e].pc = "CAPTURING" /\ task[e].ctx = "live"
        /\ cfg.sender

\* C26: once the stop channel of an entry is closed, the goroutine of the
\* entry reaches CANCELLED, given that every port call returns and that the
\* select takes the stop case in the end when it finds it ready at every
\* visit.
C26_CancelledTaskExits ==
    \A e \in EntryIds :
        (e \in Entries /\ entry[e].stopChan = "closed")
            ~> (e \in Entries /\ task[e].pc = "CANCELLED")

\* the stop channel of an entry is closed while the entry's timer has
\* elapsed too: the select has both cases ready
C26_Witness ==
    \E e \in Entries :
        /\ entry[e].stopChan = "closed"
        /\ task[e].pc = "WAITING" /\ task[e].timer = "elapsed" /\ task[e].err # None

\* C27: once nextRun has given the first fire instant it is not computed
\* again; every reset of the timer puts it one interval after the instant
\* at which captureAndSend returned; so the k-th firing begins no earlier
\* than the first fire instant plus (k-1) intervals plus the durations of
\* the pipeline calls before it.
C27_NextRunOnceThenInterval ==
    [][/\ (run.pc \in {"done", "armed", "firing"})
             => (run'.next = run.next /\ run'.scheduled = run.scheduled)
       /\ (run.pc = "firing" /\ run'.pc = "armed")
             => (run'.due = run'.at + run.interval /\ run'.at >= run.firedAt)
       /\ (run'.pc = "firing")
             => (run'.firedAt >= run.next + (run'.k - 1) * run.interval + run'.spent)]_vars

\* the second firing begins exactly one interval and one pipeline duration
\* after the first fire instant: it has drifted from the target time
C27_Witness ==
    /\ run.pc = "firing" /\ run.k = 2 /\ run.spent > 0
    /\ run.firedAt = run.next + run.interval + run.spent

\* C28: for every target time, every current instant on a calendar day
\* without clock change and every positive interval, the first fire instant
\* nextRun gives is strictly after the current instant.
C28_FirstFireAfterNow ==
    (run.pc = "done" /\ run.interval > 0
       /\ DayLength(run.loc, DayOf(run.loc, run.now)) = DayLen)
        => run.next > run.now

\* C29: with a store, the step in which Add calls store.Create leaves the
\* registry and the entries alone, and the step in which Add's register puts
\* the entry into the registry is taken only after Create has returned nil:
\* the row of the subscription is in the store by then, and register does
\* not touch the store.
C29_AddRegistersAfterCreate ==
    [][\A p \in Procs :
          /\ (cfg.store /\ Calls(p, "Add"))
                => UNCHANGED <<subscriptions, entry, task>>
          /\ (cfg.store /\ proc[p].op = "Add" /\ proc[p].pc = "register"
                 /\ proc'[p].pc = "register_unlock")
                => /\ ~proc[p].storeFailed
                   /\ \E i \in DOMAIN store :
                         store[i] = subscriptionRecord(Head(proc[p].queue))
                   /\ Len(entry') = Len(entry) + 1
                   /\ store' = store]_vars

\* an Add on a manager with a store is inside register with its entry in the
\* registry, and the store holds the row of that entry's subscription
C29_Witness ==
    \E p \in Procs :
        /\ cfg.store /\ proc[p].op = "Add" /\ proc[p].pc = "register_unlock"
        /\ proc[p].cur \in InRegistry
        /\ \E i \in DOMAIN store : store[i] = subscriptionRecord(entry[proc[p].cur].sub)

\* some goroutine is inside a pipeline invocation
SomeFiring == \E e \in Entries : task[e].pc \in Firing

\* C30: no step of a schedule goroutine takes or releases m.mu, and while
\* some goroutine is inside a pipeline invocation, whatever its ports do, a
\* caller is never held up: with no call in progress Remove, Shutdown and
\* ListByGuild can begin (and Add, below the bound on entries), a call in
\* progress can take its next step, the steps that take the lock included,
\* and the lock is held by nobody but a caller about to release it.
C30_FiringDoesNotBlockCallers ==
    [][/\ (\E e \in Entries : task'[e] # task[e]) => mu' = mu
       /\ (Running /\ SomeFiring)
             => /\ mu.writer # None
                      => proc[mu.writer].pc \in {"register_unlock", "remove_unlock",
                                                 "shutdown_unlock"}
                /\ \A q \in mu.readers : proc[q].pc = "list_runlock"
                /\ proc["p1"].pc = "idle"
                      => /\ ENABLED (\E ch \in Channels : Remove("p1", ch))
                         /\ ENABLED ShutdownLock("p1")
                         /\ ENABLED (\E g \in Guilds : ListByGuild("p1", g))
                         /\ Len(entry) + Pending < MaxEntries
                               => ENABLED (\E sub \in SubInputs : Add("p1", sub))
                /\ proc["p1"].pc = "register" => ENABLED RegisterLock("p1")
                /\ proc["p1"].pc = "remove_lock" => ENABLED RemoveLock("p1")
                /\ ENABLED Call("p1")]_vars

\* a Remove holds the lock while the dispatch call of an entry it has not
\* detached goes on past its timeout
C30_Witness ==
    /\ mu.writer = "p1" /\ proc["p1"].pc = "remove_unlock"
    /\ \E e \in Entries :
          /\ task[e].pc = "DISPATCHING" /\ task[e].ctx = "overrun"
          /\ entry[e].detachedBy = None

\* two entries registered under one destination
SameChannel(e, f) ==
    /\ e # f
    /\ e \in InRegistry /\ f \in InRegistry
    /\ entry[e].sub.ChannelID = entry[f].sub.ChannelID

\* C31: deliveries to one destination are not serialized.  With two entries
\* registered under one destination, while one is inside its pipeline call
\* the other fires as soon as its timer has elapsed, and while both are
\* inside their pipeline calls each can take its next step.
C31_SameDestinationFiresConcurrently ==
    \A e, f \in Entries :
        (Running /\ cfg.capture /\ SameChannel(e, f)
           /\ task[f].pc \in {"CAPTURING", "DISPATCHING"})
            => /\ (task[e].pc = "WAITING" /\ task[e].timer = "elapsed")
                     => ENABLED TaskFire(e)
               /\ task[e].pc \in {"CAPTURING", "DISPATCHING"}
                     => (ENABLED CaptureReturn(e) \/ ENABLED DispatchReturn(e))

\* two entries of one destination are inside their pipeline calls at once,
\* one in its dispatch call and the other still in its capture call
C31_Witness ==
    \E e, f \in Entries :
        /\ SameChannel(e, f)
        /\ task[e].pc = "DISPATCHING" /\ task[f].pc = "CAPTURING"

\* a caller in the loop that closes the stop channels of its entries
Closing(p) == proc[p].pc \in {"remove_close", "shutdown_close"}

\* a caller between its Lock (RLock) and its Unlock (RUnlock)
AtUnlock(p) ==
    proc[p].pc \in {"register_unlock", "remove_unlock", "shutdown_unlock", "list_runlock"}

\* C32: a stop channel is closed only by a Remove or Shutdown in its closing
\* loop, which does not hold m.mu; whoever holds m.mu is a caller at its
\* Unlock, which it can take at once; and when m.mu is free a caller that
\* needs it can take it: no caller waits for the lock for ever.
C32_CloseOutsideLockNoDeadlock ==
    [][/\ \A e \in Entries :
             (entry[e].stopChan = "open" /\ entry'[e].stopChan = "closed")
                 => \E p \in Procs :
                       /\ Closing(p) /\ proc'[p].i = proc[p].i + 1
                       /\ proc[p].entries[proc[p].i] = e
                       /\ mu.writer # p /\ p \notin mu.readers
                       /\ mu' = mu
       /\ \A p \in Procs :
             /\ Closing(p) => (mu.writer # p /\ p \notin mu.readers)
             /\ (mu.writer = p \/ p \in mu.readers) => AtUnlock(p)
             /\ (Running /\ AtUnlock(p)) => ENABLED Call(p)
             /\ (Running /\ MuFree)
                   => /\ proc[p].pc = "register" => ENABLED RegisterLock(p)
                      /\ proc[p].pc = "remove_lock" => ENABLED RemoveLock(p)
                      /\ proc[p].pc = "idle" => ENABLED ShutdownLock(p)]_vars

\* a Remove has closed a stop channel and is still in its closing loop while
\* the other caller holds the lock
C32_Witness ==
    /\ proc["p1"].pc = "remove_close" /\ proc["p1"].i > 1
    /\ mu.writer = "p2"

\* no call is in progress
Quiescent == \A p \in Procs : proc[p].pc \in {"idle", "returned"}

\* the entries the registry holds for a destination, and the rows the store
\* holds for it
LiveCount(ch) == IF ch \in DOMAIN subscriptions THEN Len(subscriptions[ch]) ELSE 0
RowCount(ch) == Cardinality({i \in DOMAIN store : store[i].ChannelID = ch})

\* C33: with a store, from an empty registry and an empty store, when every
\* Add and Remove issued so far (concurrently or not, none of them failed,
\* no LoadExisting and no Shutdown called) has returned, the registry holds
\* for each destination as many entries as the store holds rows.
C33_RegistryMirrorsStore ==
    Quiescent => \A ch \in Channels : LiveCount(ch) = RowCount(ch)

\* two subscriptions a row of the store cannot tell apart: the same
\* destination, guild and time of day
SameSubscription(a, b) ==
    a.ChannelID = b.ChannelID /\ a.GuildID = b.GuildID /\ a.Time.hm = b.Time.hm

\* the registry entries that carry subscription sub
EntriesFor(sub) == {e \in InRegistry : SameSubscription(entry[e].sub, sub)}

\* C34: a register step of LoadExisting adds one new entry to the registry
\* whatever the registry holds: the entries that already carry the same
\* subscription (from an earlier LoadExisting or from an Add) stay in the
\* registry with their stop channels and goroutines as they were, and the
\* subscription has one entry more; the step that follows launches the new
\* entry's goroutine and touches no other.
C34_ReloadAppendsWithoutMerge ==
    [][\A p \in Procs :
          /\ (proc[p].op = "LoadExisting" /\ proc[p].pc = "register"
                 /\ proc'[p].pc = "register_unlock")
                => LET sub == Head(proc[p].queue)
                       id == Len(entry) + 1
                   IN /\ InRegistry' = InRegistry \cup {id}
                      /\ id \notin InRegistry
                      /\ entry'[id].sub = sub
                      /\ EntriesFor(sub)' = EntriesFor(sub) \cup {id}
                      /\ LiveCount(sub.ChannelID)' = LiveCount(sub.ChannelID) + 1
                      /\ \A e \in Entries : entry'[e] = entry[e] /\ task'[e] = task[e]
          /\ (proc[p].op = "LoadExisting" /\ proc[p].pc = "register_go"
                 /\ proc'[p].pc # "register_go")
                => /\ task'[proc[p].cur].pc \in LiveTask
                   /\ \A e \in Entries \ {proc[p].cur} : task'[e] = task[e]
                   /\ UNCHANGED <<subscriptions, entry>>]_vars

\* a LoadExisting that began with an entry in the registry has registered a
\* second entry for the same subscription; both are in the registry, the old
\* one uncancelled with its goroutine running
C34_Witness ==
    \E p \in Procs :
        /\ proc[p].op = "LoadExisting" /\ proc[p].pc = "register_go" /\ proc[p].base = 1
        /\ InRegistry = {1, 2}
        /\ SameSubscription(entry[1].sub, entry[2].sub)
        /\ entry[1].stopChan = "open" /\ task[1].pc \in LiveTask

\* the call of p has taken entry e out of the registry and has yet to close
\* its stop channel
WillClose(p, e) ==
    /\ proc[p].pc \in {"remove_unlock", "remove_close", "shutdown_unlock", "shutdown_close"}
    /\ \E k \in DOMAIN proc[p].entries :
          /\ proc[p].entries[k] = e
          /\ Closing(p) => k >= proc[p].i

\* C35: every goroutine that has been launched and has not returned belongs
\* to an entry that is in the registry, or whose stop channel is closed, or
\* that a Remove or Shutdown still in progress holds and has yet to close.
C35_NoTaskLeaks ==
    \A e \in Entries :
        task[e].pc \in LiveTask
            => \/ e \in InRegistry
               \/ entry[e].stopChan = "closed"
               \/ \E p \in Procs : WillClose(p, e)

\* a running goroutine whose entry has left the registry with its stop
\* channel still open: a Remove or Shutdown in progress holds it
C35_Witness ==
    \E e \in Entries :
        /\ task[e].pc \in LiveTask
        /\ e \notin InRegistry /\ entry[e].stopChan = "open"
        /\ \E p \in Procs : WillClose(p, e) /\ Closing(p)

\* the store holds a row for the subscription of entry e
Persisted(e) == \E i \in DOMAIN store : store[i] = subscriptionRecord(entry[e].sub)

\* the step is taken by a Shutdown call of p
ShutdownStep(p) ==
    \/ Calls(p, "Shutdown")
    \/ proc[p].op = "Shutdown" /\ proc'[p] # proc[p]

C37_ShutdownIsNotTerminal ==
    [][/\ \A p \in Procs :
             /\ (Running /\ lastShutdown # None /\ proc[p].pc = "register" /\ MuFree)
                   => ENABLED RegisterLock(p)
             /\ (lastShutdown # None /\ proc[p].pc = "register"
                    /\ proc'[p].pc = "register_unlock")
                   => LET id == Len(entry) + 1
                      IN /\ InRegistry' = InRegistry \cup {id}
                         /\ entry'[id].stopChan = "open"
                         /\ \A q \in Procs : id \notin Held(q)'
             /\ (proc[p].pc = "register_go" /\ proc'[p].pc # "register_go")
                   => task'[proc[p].cur].pc = "WAITING"
       /\ \A e \in Entries :
             (entry[e].stopChan = "open" /\ entry'[e].stopChan = "closed")
                 => /\ entry[e].detachedBy \in {"Remove", "Shutdown"}
                    /\ e \notin InRegistry
                    /\ \E q \in Procs : Closing(q) /\ WillClose(q, e)]_vars

\* a Shutdown has returned, having closed the entry it found; an entry
\* registered since is in the registry with an open stop channel and a
\* running goroutine
C37_Witness ==
    \E e, f \in Entries :
        /\ entry[e].detachedBy = "Shutdown" /\ entry[e].opReturned
        /\ entry[e].stopChan = "closed"
        /\ f > e /\ f \in InRegistry
        /\ entry[f].stopChan = "open" /\ task[f].pc \in LiveTask

\* the step is taken by a Remove call of p
RemoveStep(p) ==
    \/ Calls(p, "Remove")
    \/ proc[p].op = "Remove" /\ proc'[p] # proc[p]

\* the destination of the Remove call of p that takes the step
RemovedChannel(p) ==
    IF proc[p].op = "Remove" THEN proc[p].ch
    ELSE IF proc'[p].op = "Remove" THEN proc'[p].ch ELSE ret'[p].ch

\* C38: no step of Remove(destination) touches another destination: the
\* registry keeps the other keys with their entries, those entries keep
\* their stop channels and their goroutines stay as they are, and the rows
\* the store holds for other destinations stay.
C38_RemoveLeavesOtherDestinations ==
    [][\A p \in Procs :
          RemoveStep(p)
              => LET ch == RemovedChannel(p)
                 IN /\ \A c \in Channels \ {ch} :
                          /\ c \in DOMAIN subscriptions' <=> c \in DOMAIN subscriptions
                          /\ c \in DOMAIN subscriptions => subscriptions'[c] = subscriptions[c]
                          /\ RowsFor(store', c) = RowsFor(store, c)
                    /\ \A e \in Entries :
                          entry[e].sub.ChannelID # ch
                              => /\ entry'[e] = entry[e]
                                 /\ task'[e] = task[e]
                                 /\ e \in InRegistry' <=> e \in InRegistry]_vars

\* a Remove has returned after cancelling an entry of its destination, while
\* an entry of another destination is in the registry, uncancelled, with
\* its goroutine inside a firing
C38_Witness ==
    \E p \in Procs :
        /\ ret[p].op = "Remove" /\ ret[p].live >= 1
        /\ \E e \in InRegistry :
              /\ entry[e].sub.ChannelID # ret[p].ch
              /\ entry[e].stopChan = "open" /\ task[e].pc \in Firing

\* the number of subscriptions of destination c in the sequence subs
CountFor(subs, c) == Cardinality({i \in DOMAIN subs : subs[i].ChannelID = c})

\* C39: without a store, while a ListByGuild holds the read lock the
\* registry does not change, whatever the other callers do; what the call
\* returns is, with multiplicity, the subscriptions of the guild in that one
\* registry state: for every destination it holds all the matching
\* subscriptions the registry has for it (none, when a Remove has already
\* taken the destination out), never a part.
C39_ListIsSnapshot ==
    [][/\ mu.readers # {}
             => (subscriptions' = subscriptions
                   /\ \A e \in Entries : entry'[e].sub = entry[e].sub)
       /\ \A p \in Procs :
             (proc[p].pc = "list_runlock" /\ proc'[p].pc = "returned")
                 => /\ ret'[p].err = None
                    /\ HoldsRegistryOf(ret'[p].subs, ret'[p].guild)
                    /\ \A c \in Channels :
                          CountFor(ret'[p].subs, c)
                            = Cardinality({e \in InRegistry :
                                             /\ entry[e].sub.ChannelID = c
                                             /\ entry[e].sub.GuildID = ret'[p].guild})]_vars

\* a ListByGuild has collected both subscriptions of a destination while a
\* Remove of that destination, begun by the other caller, waits for the lock
C39_Witness ==
    \E p, q \in Procs :
        /\ proc[p].pc = "list_runlock" /\ Len(proc[p].subs) = 2
        /\ proc[q].pc = "remove_lock"
        /\ \A i \in DOMAIN proc[p].subs : proc[p].subs[i].ChannelID = proc[q].ch

====
